---------------------------- MODULE Spec2Model ----------------------------
(***************************************************************************)
(* Model of the audit-trail pipeline core:                                 *)
(*   - chunk_document / write_chunks_to_file  (src/src/pipeline/chunking.py)*)
(*   - _build_reliability_map / query_endpoint (src/src/api/server.py.py)  *)
(*                                                                         *)
(* Python strings are sequences of one-character strings, so that          *)
(* concatenation, slicing and str(int) are computed rather than assumed.   *)
(* Numbers are integers (every product of the small scores and weights     *)
(* used here is exact in Python floats as well).                           *)
(***************************************************************************)
EXTENDS Integers, Sequences, FiniteSets, TLC

VARIABLES
    \* ---- chunk_document(doc_id, text, chunk_size, overlap) ----
    doc_id, text, chunk_size, overlap,   \* the arguments of the call
    step, index, chunk_index, chunks,    \* the locals of the call
    cpc,                                 \* position in chunk_document
    files,                               \* data/processed/chunks/<doc_id>.jsonl
    \* ---- query_endpoint(req) ----
    req,                                 \* the request body
    settings,                            \* what load_settings returned
    raw_results,                         \* what query_index returned (mutated in place)
    reliability_map,                     \* what _build_reliability_map returned
    ranked, final,                       \* the sorted list, the truncated list
    response,                            \* QueryResponse.results
    qpc,                                 \* position in query_endpoint
    trace,                               \* the steps the handler has performed, in order
    runs                                 \* chunking runs persisted so far

chunkVars == <<doc_id, text, chunk_size, overlap, step, index, chunk_index, chunks, cpc>>
queryVars == <<req, settings, raw_results, reliability_map, ranked, final, response, qpc, trace>>
vars == <<doc_id, text, chunk_size, overlap, step, index, chunk_index, chunks, cpc, files,
          req, settings, raw_results, reliability_map, ranked, final, response, qpc, trace,
          runs>>

(***************************************************************************)
(* Bounds of the model.                                                    *)
(***************************************************************************)
MaxTextLen == 5      \* texts over the two-letter alphabet have at most this length
MaxRepeat == 11      \* repetitive texts "x"*n have n up to this (chunk_index reaches 10)
MaxChunkSize == 3    \* chunk_size ranges over 1..MaxChunkSize
MaxOverlap == 3      \* overlap ranges over 0..MaxOverlap (includes overlap >= chunk_size)
DigestLen == 2       \* hex digits kept of a digest (64 in SHA-256)
MaxRuns == 2         \* chunking runs persisted in one behaviour of the chunk store
MaxEntries == 2      \* entries of a sources configuration
MaxWeight == 2       \* configured reliabilities range over -1..MaxWeight
MaxResults == 3      \* results returned by one retrieval
MaxTopK == 2         \* largest valid top_k requested

Max(a, b) == IF a >= b THEN a ELSE b
Min(a, b) == IF a <= b THEN a ELSE b

(***************************************************************************)
(* Strings.                                                                *)
(***************************************************************************)
HexDigits == <<"0", "1", "2", "3", "4", "5", "6", "7", "8", "9",
               "a", "b", "c", "d", "e", "f">>
Alphabet == <<"x", "y">>
AllChars == HexDigits \o Alphabet

\* ord(c), for the characters of the model
Code(c) == CHOOSE i \in 1..Len(AllChars) : AllChars[i] = c

RECURSIVE Pow(_, _)
Pow(b, n) == IF n = 0 THEN 1 ELSE b * Pow(b, n - 1)

\* str(n) of a non-negative int: its decimal digits, no padding
Str(n) ==
    LET digits[k \in 0..n] ==
            IF k < 10 THEN <<HexDigits[k + 1]>>
            ELSE digits[k \div 10] \o <<HexDigits[(k % 10) + 1]>>
    IN  digits[n]

\* n written with exactly `width` hex digits (hexdigest is fixed-width)
HexFixed(n, width) ==
    [i \in 1..width |-> HexDigits[((n \div Pow(16, width - i)) % 16) + 1]]

\* the digest of a string as a number below 16^DigestLen
DigestValue(data) ==
    LET h[i \in 0..Len(data)] ==
            IF i = 0 THEN 7
            ELSE (h[i - 1] * 31 + Code(data[i])) % Pow(16, DigestLen)
    IN  h[Len(data)]

\* sha256_hex: a deterministic digest of the whole string, as a fixed-width
\* lowercase hex string (DigestLen digits here, 64 in the code).
\* (the singleton sets bind the argument and the digest as values, so each is
\* evaluated once)
sha256_hex(data) ==
    CHOOSE hex \in {HexFixed(v, DigestLen) : v \in {DigestValue(d) : d \in {data}}} : TRUE

\* text[start:end] for 0 <= start and end <= len(text)
Slice(s, start, end) == SubSeq(s, start + 1, end)

\* the strings over S of length at most n
SeqsUpTo(S, n) == UNION {[1..k -> S] : k \in 0..n}

Repeat(c, n) == [i \in 1..n |-> c]

(***************************************************************************)
(* chunk_document                                                          *)
(***************************************************************************)
DocIds == {<<"d">>, <<"d", "1">>}
Texts == SeqsUpTo({Alphabet[i] : i \in 1..Len(Alphabet)}, MaxTextLen)
            \cup {Repeat("x", n) : n \in 0..MaxRepeat}
ChunkSizes == 1..MaxChunkSize
Overlaps == 0..MaxOverlap

\* mutants of StepSize
StepNoFloor(cs, ov) == cs - ov
StepIgnoresOverlap(cs, ov) == Max(cs, 1)

\* line 55: step = max(chunk_size - overlap, 1)
StepSize(cs, ov) == Max(cs - ov, 1)

\* mutant of WindowEnd: the window is not clipped to the text
WindowEndUnclipped(start, cs, n) == start + cs

\* line 61: end = min(start + chunk_size, text_length)
WindowEnd(start, cs, n) == Min(start + cs, n)

\* mutant of IdInput: the position is left out of the address
IdInputNoIndex(d, i, h) == d \o h

\* line 65: the string that is hashed into chunk_id
IdInput(d, i, h) == d \o Str(i) \o h

\* lines 60-75: the record appended by one iteration of the loop
ChunkRecord(d, t, cs, i, ci) ==
    LET start == i
        end == WindowEnd(start, cs, Len(t))
        chunk_text == Slice(t, start, Min(end, Len(t)))
        chunk_hash == sha256_hex(chunk_text)
    IN  [chunk_id |-> sha256_hex(IdInput(d, ci, chunk_hash)),
         doc_id |-> d,
         chunk_index |-> ci,
         text |-> chunk_text,
         start_char |-> start,
         end_char |-> end]

\* lines 51-78 as one call: the list chunk_document returns
RECURSIVE ChunkLoop(_, _, _, _, _, _, _)
ChunkLoop(d, t, cs, st, i, ci, acc) ==
    IF i < Len(t)
    THEN ChunkLoop(d, t, cs, st, i + st, ci + 1, Append(acc, ChunkRecord(d, t, cs, i, ci)))
    ELSE acc

chunk_document(d, t, cs, ov) ==
    IF t = <<>> THEN <<>>
    ELSE ChunkLoop(d, t, cs, StepSize(cs, ov), 0, 0, <<>>)

QueryIdle ==
    /\ req = [top_k |-> 0]
    /\ settings = [shape |-> "none", has_sources |-> FALSE, entries |-> <<>>]
    /\ raw_results = <<>>
    /\ reliability_map = <<>>
    /\ ranked = <<>>
    /\ final = <<>>
    /\ response = <<>>
    /\ qpc = "idle"
    /\ trace = <<>>

ChunkIdle ==
    /\ doc_id = <<>>
    /\ text = <<>>
    /\ chunk_size = 1
    /\ overlap = 0
    /\ step = 0
    /\ index = 0
    /\ chunk_index = 0
    /\ chunks = <<>>
    /\ cpc = "idle"

\* no call has been made yet
ChunkInit ==
    /\ ChunkIdle
    /\ files = [d \in DocIds |-> <<>>]
    /\ runs = 0
    /\ QueryIdle

\* lines 25-30: chunk_document(d, t, cs, ov) is called
ChunkCall ==
    /\ cpc = "idle"
    /\ \E d \in DocIds, t \in Texts, cs \in ChunkSizes, ov \in Overlaps :
          /\ doc_id' = d
          /\ text' = t
          /\ chunk_size' = cs
          /\ overlap' = ov
    /\ cpc' = "start"
    /\ UNCHANGED <<step, index, chunk_index, chunks, files, runs>>
    /\ UNCHANGED queryVars

\* lines 51-58: the empty-text early return, else the loop's initialisation
ChunkEnter ==
    /\ cpc = "start"
    /\ chunks' = <<>>
    /\ IF text = <<>>
       THEN /\ cpc' = "done"
            /\ UNCHANGED <<step, index, chunk_index>>
       ELSE /\ step' = StepSize(chunk_size, overlap)
            /\ index' = 0
            /\ chunk_index' = 0
            /\ cpc' = "loop"
    /\ UNCHANGED <<doc_id, text, chunk_size, overlap, files, runs>>
    /\ UNCHANGED queryVars

\* lines 59-77: one iteration of the while loop
ChunkIterate ==
    /\ cpc = "loop"
    /\ index < Len(text)
    /\ chunks' = Append(chunks, ChunkRecord(doc_id, text, chunk_size, index, chunk_index))
    /\ chunk_index' = chunk_index + 1
    /\ index' = index + step
    /\ UNCHANGED <<doc_id, text, chunk_size, overlap, step, cpc, files, runs>>
    /\ UNCHANGED queryVars

\* lines 59, 78: the loop test fails and the list is returned
ChunkReturn ==
    /\ cpc = "loop"
    /\ ~(index < Len(text))
    /\ cpc' = "done"
    /\ UNCHANGED <<doc_id, text, chunk_size, overlap, step, index, chunk_index, chunks, files, runs>>
    /\ UNCHANGED queryVars

ChunkNext ==
    \/ ChunkCall
    \/ ChunkEnter
    \/ ChunkIterate
    \/ ChunkReturn

ChunkSpec == ChunkInit /\ [][ChunkNext]_vars

(***************************************************************************)
(* Properties of one chunk_document call.                                  *)
(***************************************************************************)
CeilDiv(a, b) == (a + b - 1) \div b

\* the list built by the loop is the list the call returns
LoopAgreesWithCall ==
    cpc = "done" => chunks = chunk_document(doc_id, text, chunk_size, overlap)

\* C1: for non-empty text the windows [start_char, end_char) of the returned
\* chunks are non-empty, lie inside [0, len(text)) and together cover every
\* character position of the text.
CoverageExact ==
    (cpc = "done" /\ text # <<>>) =>
        /\ \A k \in 1..Len(chunks) :
              /\ 0 <= chunks[k].start_char
              /\ chunks[k].start_char < chunks[k].end_char
              /\ chunks[k].end_char <= Len(text)
        /\ \A p \in 0..(Len(text) - 1) :
              \E k \in 1..Len(chunks) :
                  chunks[k].start_char <= p /\ p < chunks[k].end_char

CoverageWitness ==
    /\ cpc = "done"
    /\ Len(text) >= 4
    /\ overlap >= chunk_size
    /\ Len(chunks) >= 4
    /\ chunks[Len(chunks)].end_char - chunks[Len(chunks)].start_char < chunk_size

\* characters shared by chunk k and chunk k+1 (1-based positions in the list)
Shared(k) == chunks[k].end_char - chunks[k + 1].start_char
WindowLen(k) == chunks[k].end_char - chunks[k].start_char

\* C2 as stated: every two consecutive chunks share exactly `overlap`
\* characters, the final chunk alone being allowed to deviate (so every pair
\* whose second chunk is not the final one shares exactly `overlap`).
OverlapExactAsClaimed ==
    cpc = "done" =>
        \A k \in 1..(Len(chunks) - 2) : Shared(k) = overlap

\* C2 amended: two consecutive chunks share exactly min(overlap, chunk_size - 1)
\* characters (that is `overlap` when overlap < chunk_size) whenever the first
\* of the two has the full chunk_size characters; a chunk cut short by the end
\* of the text, final or not, shares fewer with its successor (at least one).
OverlapWhenFull ==
    cpc = "done" =>
        \A k \in 1..(Len(chunks) - 1) :
            /\ WindowLen(k) = chunk_size => Shared(k) = Min(overlap, chunk_size - 1)
            /\ WindowLen(k) < chunk_size =>
                  /\ 1 <= Shared(k)
                  /\ Shared(k) < Min(overlap, chunk_size - 1)

OverlapWitness ==
    /\ cpc = "done"
    /\ 1 <= overlap
    /\ overlap < chunk_size
    /\ Len(chunks) >= 4
    /\ \E k \in 1..(Len(chunks) - 1) : WindowLen(k) < chunk_size /\ Shared(k) < overlap
    /\ \E k \in 1..(Len(chunks) - 1) : WindowLen(k) = chunk_size /\ Shared(k) = overlap

\* a step of the call that is running
ChunkRun == ChunkEnter \/ ChunkIterate \/ ChunkReturn

\* the interpreter keeps executing a call that has started
FairChunkSpec == ChunkSpec /\ WF_vars(ChunkRun)

\* C3: the call terminates: the step is max(chunk_size - overlap, 1) >= 1, the
\* offset strictly increases on every iteration, every call that starts
\* returns, and it returns exactly ceil(len(text) / step) chunks (at most
\* len(text), none for empty text), indexed 0, 1, 2, ...
ChunkingTerminates ==
    /\ [][(cpc = "loop" /\ cpc' = "loop") => index' > index]_vars
    /\ [](cpc = "loop" => (step = Max(chunk_size - overlap, 1) /\ step >= 1))
    /\ [](\A k \in 1..Len(chunks) : chunks[k].chunk_index = k - 1)
    /\ [](cpc = "done" =>
            /\ Len(chunks) = CeilDiv(Len(text), Max(chunk_size - overlap, 1))
            /\ Len(chunks) <= Len(text))
    /\ (cpc = "start") ~> (cpc = "done")

TerminationWitness ==
    /\ cpc = "done"
    /\ overlap >= chunk_size
    /\ Len(text) >= 5
    /\ Len(chunks) = Len(text)

\* the string chunk_document hashes to obtain the chunk_id of a record
HashedString(c) == IdInput(c.doc_id, c.chunk_index, sha256_hex(c.text))

\* C4: within one call, chunks with different chunk_index have different
\* strings hashed into chunk_id (hence different chunk_ids for an injective
\* hash), also when their text is identical.
ChunkIdsPositionSensitive ==
    \A i \in 1..Len(chunks) : \A j \in 1..Len(chunks) :
        chunks[i].chunk_index # chunks[j].chunk_index =>
            HashedString(chunks[i]) # HashedString(chunks[j])

PositionWitness ==
    /\ cpc = "done"
    /\ Len(chunks) >= 11
    /\ \E i \in 1..Len(chunks) : \E j \in 1..Len(chunks) :
          /\ chunks[i].chunk_index = 1
          /\ chunks[j].chunk_index = 10
          /\ chunks[i].text = chunks[j].text

(***************************************************************************)
(* The chunk store: chunk_document followed by write_chunks_to_file.       *)
(***************************************************************************)
StoreTexts == {Repeat("x", n) : n \in 0..MaxRepeat}

StoreInit ==
    /\ ChunkIdle
    /\ files = [d \in DocIds |-> <<>>]
    /\ runs = 0
    /\ QueryIdle

\* one pipeline run for a document: chunk it, then (re)write its file in full
ChunkAndWrite ==
    /\ runs < MaxRuns
    /\ \E d \in DocIds, t \in StoreTexts, cs \in ChunkSizes, ov \in Overlaps :
          files' = [files EXCEPT ![d] = chunk_document(d, t, cs, ov)]
    /\ runs' = runs + 1
    /\ UNCHANGED chunkVars
    /\ UNCHANGED queryVars

StoreNext == ChunkAndWrite

StoreSpec == StoreInit /\ [][StoreNext]_vars

\* C10: the hashed string doc_id + str(chunk_index) + text_hash determines
\* (doc_id, chunk_index, text_hash): chunks of two documents with different
\* doc_ids and the same text never have the same hashed string.
IdInputDeterminesTriple ==
    \A d1 \in DocIds : \A d2 \in DocIds :
        d1 # d2 =>
            \A i \in 1..Len(files[d1]) : \A j \in 1..Len(files[d2]) :
                files[d1][i].text = files[d2][j].text =>
                    HashedString(files[d1][i]) # HashedString(files[d2][j])

(***************************************************************************)
(* Values read from configuration and from retrieval results.  A value is  *)
(* a record [kind, val]: kind "missing" (the key is absent), "text" (a     *)
(* string that spells no number), "numtext" (a string that spells the      *)
(* number val) or "num" (the int or float val).                            *)
(***************************************************************************)
Missing == [kind |-> "missing", val |-> 0]
BadText == [kind |-> "text", val |-> 0]
NumText(n) == [kind |-> "numtext", val |-> n]
Num(n) == [kind |-> "num", val |-> n]

NoneName == "<None>"     \* what dict.get returns for an absent key
ListName == "<list>"     \* a name that is a non-empty list: truthy, unhashable

(***************************************************************************)
(* _build_reliability_map                                                  *)
(***************************************************************************)
EntryNames == {NoneName, "", "A", "B", ListName}
Reliabilities == {Missing, BadText} \cup {Num(n) : n \in -1..MaxWeight}
ConfigEntries == [name : EntryNames, reliability : Reliabilities]
EntryLists(k) == [1..k -> ConfigEntries]     \* the lists of k entries

\* settings.sources holding the entries es: a mapping with a "sources" key or
\* a bare list; and, with no entries, None, a mapping without the key, or
\* some other value
SourcesConfigs(es) ==
    {[shape |-> "dict", has_sources |-> TRUE, entries |-> es],
     [shape |-> "list", has_sources |-> FALSE, entries |-> es]}
    \cup (IF es = <<>>
          THEN {[shape |-> "none", has_sources |-> FALSE, entries |-> <<>>],
                [shape |-> "other", has_sources |-> FALSE, entries |-> <<>>],
                [shape |-> "dict", has_sources |-> FALSE, entries |-> <<>>]}
          ELSE {})

\* truth value of settings.sources in `settings.sources or {}`
SourcesTruthy(cfg) ==
    \/ cfg.shape = "other"
    \/ cfg.shape = "dict" /\ cfg.has_sources
    \/ cfg.shape = "list" /\ Len(cfg.entries) > 0

\* lines 69-76: the entries the loop runs over
EntriesOf(cfg) ==
    LET sources_config == IF SourcesTruthy(cfg) THEN cfg
                          ELSE [shape |-> "dict", has_sources |-> FALSE, entries |-> <<>>]
    IN  IF sources_config.shape = "dict" /\ sources_config.has_sources
        THEN sources_config.entries
        ELSE IF sources_config.shape = "list" THEN sources_config.entries
        ELSE <<>>

\* line 80: name and isinstance(weight, (int, float)) and weight > 0
EntryAccepted(e) ==
    /\ e.name \notin {NoneName, ""}
    /\ e.reliability.kind = "num"
    /\ e.reliability.val > 0

\* line 81: reliability[name] = float(weight)
MapPut(m, k, v) == [x \in DOMAIN m \cup {k} |-> IF x = k THEN v ELSE m[x]]

\* line 81: a list cannot be a dict key, the assignment raises TypeError
Unhashable(k) == k = ListName

\* lines 68-82: the loop stores the accepted entries in order; the call
\* returns the map, or leaves with the TypeError of the first accepted entry
\* whose name cannot be a key
_build_reliability_map(cfg) ==
    LET entries == EntriesOf(cfg)
        built[i \in 0..Len(entries)] ==
            IF i = 0 THEN [outcome |-> "returned", value |-> <<>>]
            ELSE IF built[i - 1].outcome # "returned" THEN built[i - 1]
            ELSE IF ~EntryAccepted(entries[i]) THEN built[i - 1]
            ELSE IF Unhashable(entries[i].name)
                 THEN [outcome |-> "TypeError", value |-> built[i - 1].value]
                 ELSE [outcome |-> "returned",
                       value |-> MapPut(built[i - 1].value, entries[i].name,
                                        entries[i].reliability.val)]
    IN  built[Len(entries)]

MapInit ==
    /\ ChunkIdle
    /\ files = [d \in DocIds |-> <<>>]
    /\ runs = 0
    /\ QueryIdle

\* the configuration provider hands over settings
MapLoad ==
    /\ qpc = "idle"
    /\ \E k \in 0..MaxEntries : \E es \in EntryLists(k) :
          \E cfg \in SourcesConfigs(es) : settings' = cfg
    /\ qpc' = "configured"
    /\ UNCHANGED <<req, raw_results, reliability_map, ranked, final, response, trace>>
    /\ UNCHANGED chunkVars
    /\ UNCHANGED <<files, runs>>

\* _build_reliability_map(settings) is called and returns or raises
MapBuild ==
    /\ qpc = "configured"
    /\ LET call == _build_reliability_map(settings)
       IN  IF call.outcome = "returned"
           THEN /\ reliability_map' = call.value
                /\ qpc' = "built"
           ELSE /\ reliability_map' = reliability_map
                /\ qpc' = "raised"
    /\ UNCHANGED <<req, settings, raw_results, ranked, final, response, trace>>
    /\ UNCHANGED chunkVars
    /\ UNCHANGED <<files, runs>>

MapNext ==
    \/ MapLoad
    \/ MapBuild

MapSpec == MapInit /\ [][MapNext]_vars

\* an entry has a name and a reliability that is a positive number
HasNameAndPositiveWeight(e) ==
    /\ e.name # NoneName
    /\ e.name # ""
    /\ e.reliability.kind = "num"
    /\ e.reliability.val >= 1

\* positions of the configured entries, whichever of the two shapes holds them
ConfiguredEntries == IF settings.shape \in {"dict", "list"} THEN settings.entries ELSE <<>>

\* C7 as stated: map construction never fails and never stores a
\* non-positive weight: for every configuration it returns a map that holds
\* exactly the entries with a name and a positive numeric reliability (the
\* last such entry of a name giving its weight); every other entry is
\* skipped.
MapBuildAsClaimed ==
    /\ qpc # "raised"
    /\ qpc = "built" =>
          LET es == ConfiguredEntries
              valid == {i \in 1..Len(es) : HasNameAndPositiveWeight(es[i])}
          IN  /\ DOMAIN reliability_map = {es[i].name : i \in valid}
              /\ \A i \in valid :
                    (\A j \in valid : es[j].name = es[i].name => j <= i)
                        => reliability_map[es[i].name] = es[i].reliability.val
              /\ \A k \in DOMAIN reliability_map : reliability_map[k] > 0

(***************************************************************************)
(* query_endpoint                                                          *)
(***************************************************************************)
TopKMin == 1         \* Field(5, ge=1, ...)
TopKLimit == 50      \* Field(5, ..., le=50)
DefaultWeight == 1   \* reliability_map.get(src_name, 1.0)

\* top_k of a request body: the valid values 1 and MaxTopK, and the invalid
\* values next to the two ends of the valid range
RequestTopKs == {TopKMin - 1, TopKMin, MaxTopK, TopKLimit + 1}

\* settings.sources as the configuration provider may hand it to a query
QuerySettings ==
    {[shape |-> "none", has_sources |-> FALSE, entries |-> <<>>],
     [shape |-> "list", has_sources |-> FALSE,
      entries |-> <<[name |-> "A", reliability |-> Num(2)],
                    [name |-> "B", reliability |-> Num(0 - 1)]>>],
     [shape |-> "dict", has_sources |-> TRUE,
      entries |-> <<[name |-> "A", reliability |-> Num(1)],
                    [name |-> "B", reliability |-> Num(2)]>>],
     [shape |-> "list", has_sources |-> FALSE,
      entries |-> <<[name |-> ListName, reliability |-> Num(2)]>>]}

\* what the retrieval index may return: records with a source_name and a score
\* that is absent, a string, or a number; `id` stands for the metadata passed
\* through and is the record's position in the retrieval output
ResultSources == {"A", "B"}
Scores == {Missing, BadText, NumText(1)} \cup {Num(n) : n \in -1..1}
RawResultLists(n) == [1..n -> [source_name : ResultSources, score : Scores]]

\* line 151: res.get("score", 0)
GetScore(res) == IF res.score.kind = "missing" THEN Num(0) ELSE res.score

\* lines 150-153: float(...) of the value, 0.0 when float raises.  float
\* converts an int or float and also a string that spells a number.
FloatOrZero(v) == IF v.kind \in {"num", "numtext"} THEN v.val ELSE 0

\* mutant of WeightFor: the default of the lookup is 0
WeightForZeroDefault(m, name) == IF name \in DOMAIN m THEN m[name] ELSE 0

\* line 149: reliability_map.get(src_name, 1.0)
WeightFor(m, name) == IF name \in DOMAIN m THEN m[name] ELSE DefaultWeight

\* lines 147-154: the record after res["weighted_score"] = score * weight
Weighted(res, m) ==
    [id |-> res.id,
     source_name |-> res.source_name,
     score |-> res.score,
     weighted_score |-> FloatOrZero(GetScore(res)) * WeightFor(m, res.source_name)]

\* x put into a list sorted by descending weighted_score, after the elements
\* that do not rank below it
InsertAfterTies(sorted, x) ==
    LET p == Cardinality({i \in 1..Len(sorted) : sorted[i].weighted_score >= x.weighted_score})
    IN  SubSeq(sorted, 1, p) \o <<x>> \o SubSeq(sorted, p + 1, Len(sorted))

\* x put before the elements it ties with
InsertBeforeTies(sorted, x) ==
    LET p == Cardinality({i \in 1..Len(sorted) : sorted[i].weighted_score > x.weighted_score})
    IN  SubSeq(sorted, 1, p) \o <<x>> \o SubSeq(sorted, p + 1, Len(sorted))

Reverse(rs) == [i \in 1..Len(rs) |-> rs[Len(rs) + 1 - i]]

\* mutant of SortedDescending: an ascending sort, reversed (ties end up reversed)
SortedAscendingReversed(rs) ==
    LET acc[i \in 0..Len(rs)] ==
            IF i = 0 THEN <<>> ELSE InsertBeforeTies(acc[i - 1], rs[i])
    IN  acc[Len(rs)]

\* mutant of SortedDescending: reverse=True is left out
SortedAscending(rs) == Reverse(SortedAscendingReversed(rs))

\* line 156: sorted(raw_results, key=weighted_score, reverse=True); Python's
\* sort is stable, also with reverse=True
SortedDescending(rs) ==
    LET acc[i \in 0..Len(rs)] ==
            IF i = 0 THEN <<>> ELSE InsertAfterTies(acc[i - 1], rs[i])
    IN  acc[Len(rs)]

\* line 158: ranked[: top_k]
Truncated(rs, k) == SubSeq(rs, 1, Min(k, Len(rs)))

QueryInit ==
    /\ ChunkIdle
    /\ files = [d \in DocIds |-> <<>>]
    /\ runs = 0
    /\ QueryIdle

QueryRest == <<doc_id, text, chunk_size, overlap, step, index, chunk_index, chunks, cpc,
               files, runs>>

\* a POST /query arrives with a body
Receive ==
    /\ qpc = "idle"
    /\ \E k \in RequestTopKs : req' = [top_k |-> k]
    /\ qpc' = "received"
    /\ UNCHANGED <<settings, raw_results, reliability_map, ranked, final, response, trace>>
    /\ UNCHANGED QueryRest

\* lines 85-97, 109-110: the body is validated against QueryRequest before the
\* handler runs; an invalid one is rejected and the handler never runs
Validate ==
    /\ qpc = "received"
    /\ trace' = Append(trace, "validate")
    /\ qpc' = IF TopKMin <= req.top_k /\ req.top_k <= TopKLimit
              THEN "load_settings" ELSE "rejected"
    /\ UNCHANGED <<req, settings, raw_results, reliability_map, ranked, final, response>>
    /\ UNCHANGED QueryRest

\* lines 128-129: settings = load_settings(...)
LoadSettings ==
    /\ qpc = "load_settings"
    /\ \E cfg \in QuerySettings : settings' = cfg
    /\ trace' = Append(trace, "load_settings")
    /\ qpc' = "query_index"
    /\ UNCHANGED <<req, raw_results, reliability_map, ranked, final, response>>
    /\ UNCHANGED QueryRest

\* lines 130-143: raw_results = query_index(...)
QueryIndex ==
    /\ qpc = "query_index"
    /\ \E n \in 0..MaxResults : \E results \in RawResultLists(n) :
          raw_results' = [i \in 1..Len(results) |->
                             [id |-> i,
                              source_name |-> results[i].source_name,
                              score |-> results[i].score]]
    /\ trace' = Append(trace, "query_index")
    /\ qpc' = "build_reliability_map"
    /\ UNCHANGED <<req, settings, reliability_map, ranked, final, response>>
    /\ UNCHANGED QueryRest

\* lines 144-145: reliability_map = _build_reliability_map(settings); an
\* exception of the call leaves the handler
BuildMap ==
    /\ qpc = "build_reliability_map"
    /\ LET call == _build_reliability_map(settings)
       IN  IF call.outcome = "returned"
           THEN /\ reliability_map' = call.value
                /\ qpc' = "weight"
           ELSE /\ reliability_map' = reliability_map
                /\ qpc' = "raised"
    /\ trace' = Append(trace, "build_reliability_map")
    /\ UNCHANGED <<req, settings, raw_results, ranked, final, response>>
    /\ UNCHANGED QueryRest

\* lines 146-154: every result gets its weighted_score, in place
ApplyWeights ==
    /\ qpc = "weight"
    /\ raw_results' = [i \in 1..Len(raw_results) |-> Weighted(raw_results[i], reliability_map)]
    /\ trace' = Append(trace, "weight")
    /\ qpc' = "sort"
    /\ UNCHANGED <<req, settings, reliability_map, ranked, final, response>>
    /\ UNCHANGED QueryRest

\* lines 155-156
Sort ==
    /\ qpc = "sort"
    /\ ranked' = SortedDescending(raw_results)
    /\ trace' = Append(trace, "sort")
    /\ qpc' = "truncate"
    /\ UNCHANGED <<req, settings, raw_results, reliability_map, final, response>>
    /\ UNCHANGED QueryRest

\* lines 157-158
Truncate ==
    /\ qpc = "truncate"
    /\ final' = Truncated(ranked, req.top_k)
    /\ trace' = Append(trace, "truncate")
    /\ qpc' = "return"
    /\ UNCHANGED <<req, settings, raw_results, reliability_map, ranked, response>>
    /\ UNCHANGED QueryRest

\* line 159
Return ==
    /\ qpc = "return"
    /\ response' = final
    /\ trace' = Append(trace, "return")
    /\ qpc' = "done"
    /\ UNCHANGED <<req, settings, raw_results, reliability_map, ranked, final>>
    /\ UNCHANGED QueryRest

QueryNext ==
    \/ Receive
    \/ Validate
    \/ LoadSettings
    \/ QueryIndex
    \/ BuildMap
    \/ ApplyWeights
    \/ Sort
    \/ Truncate
    \/ Return

QuerySpec == QueryInit /\ [][QueryNext]_vars

(***************************************************************************)
(* Properties of a handled query.                                          *)
(***************************************************************************)
\* a ranks before b: higher weighted_score, or the same and earlier in the
\* retrieval output
RanksBefore(a, b) ==
    \/ a.weighted_score > b.weighted_score
    \/ a.weighted_score = b.weighted_score /\ a.id < b.id

\* C5: the response is exactly the first min(top_k, n) of the raw results in
\* stable descending order of weighted_score: its length is min(top_k, n),
\* its elements are raw results, each ranks before the next (non-increasing
\* score, ties in retrieval order), and each ranks before every raw result
\* that was left out.
ResponseIsStableTopK ==
    qpc = "done" =>
        LET n == Len(raw_results)
            kept == {response[i].id : i \in 1..Len(response)}
        IN  /\ Len(response) = Min(req.top_k, n)
            /\ Len(response) <= req.top_k
            /\ \A i \in 1..Len(response) :
                  /\ response[i].id \in 1..n
                  /\ response[i] = raw_results[response[i].id]
            /\ \A i \in 1..Len(response) : \A j \in 1..Len(response) :
                  i < j =>
                      /\ response[i].weighted_score >= response[j].weighted_score
                      /\ RanksBefore(response[i], response[j])
            /\ \A r \in 1..n :
                  r \notin kept =>
                      \A i \in 1..Len(response) : RanksBefore(response[i], raw_results[r])

StableTopKWitness ==
    /\ qpc = "done"
    /\ Len(raw_results) = 3
    /\ req.top_k = 2
    /\ Len(response) = 2
    /\ response[1].id = 2
    /\ response[2].id = 3
    /\ response[1].weighted_score = response[2].weighted_score
    /\ raw_results[1].weighted_score < response[2].weighted_score

\* the weight the configuration gives a source: the reliability of the last
\* well-formed entry of that name, 1 when there is none
ConfiguredWeight(name) ==
    LET es == ConfiguredEntries
        valid == {i \in 1..Len(es) : es[i].name = name /\ HasNameAndPositiveWeight(es[i])}
    IN  IF valid = {} THEN 1
        ELSE es[CHOOSE i \in valid : \A j \in valid : j <= i].reliability.val

Weighed == qpc \in {"sort", "truncate", "return", "done"}

MalformedRanksLastAsClaimed ==
    qpc = "done" =>
        \A i \in 1..Len(response) : \A j \in 1..Len(response) :
            (/\ response[i].score.kind # "num"
             /\ response[j].score.kind = "num"
             /\ ConfiguredWeight(response[i].source_name)
                    = ConfiguredWeight(response[j].source_name))
                => ~(i < j)

\* C8 amended: a result whose score is missing or rejected by float() counts
\* as 0, so no result of the same weight with a strictly positive numeric
\* score is placed after it (results with a negative score are, and so are
\* results with score 0 that retrieval ranked later).
MalformedRanksBelowPositive ==
    qpc = "done" =>
        \A i \in 1..Len(response) : \A j \in 1..Len(response) :
            (/\ response[i].score.kind \in {"missing", "text"}
             /\ response[j].score.kind = "num"
             /\ response[j].score.val > 0
             /\ ConfiguredWeight(response[i].source_name)
                    = ConfiguredWeight(response[j].source_name))
                => ~(i < j)

MalformedWitness ==
    /\ qpc = "done"
    /\ Len(raw_results) = 3
    /\ Len(response) = 2
    /\ response[1].score = Num(1)
    /\ response[1].id = 2
    /\ response[2].score = BadText
    /\ response[2].id = 1
    /\ raw_results[3].score = Num(0 - 1)
    /\ response[1].source_name = response[2].source_name
    /\ response[2].source_name = raw_results[3].source_name

\* position of a step in the trace, 0 when it has not been performed
Position(stepName) ==
    IF \E i \in 1..Len(trace) : trace[i] = stepName
    THEN CHOOSE i \in 1..Len(trace) : trace[i] = stepName
    ELSE 0

\* C9: a handled query performs validate, obtain configuration, build the
\* reliability map, retrieve, weight, sort, truncate, return, in this order,
\* each once; in particular the map is built before retrieval is invoked.
LifecycleOrderAsClaimed ==
    /\ Position("query_index") > 0 =>
          /\ Position("build_reliability_map") > 0
          /\ Position("build_reliability_map") < Position("query_index")
    /\ qpc = "done" =>
          trace = <<"validate", "load_settings", "build_reliability_map", "query_index",
                    "weight", "sort", "truncate", "return">>

=============================================================================
